---- MODULE Spec2Model ----
(***************************************************************************)
(* A model of mopm (src/mopm.go), a meta package manager: the package      *)
(* definition validator (lintPackage), the environment resolver            *)
(* (findAllPackageFile, findPackageEnvironment, machineEnvId), the         *)
(* privilege decision (installExec), the verify/install orchestration and  *)
(* the update command.                                                     *)
(*                                                                         *)
(* Text the code inspects character by character (package names, urls,     *)
(* repository lines, paths, /etc/os-release) is a sequence of one-character*)
(* strings; text the code only compares or concatenates is a string.       *)
(***************************************************************************)
EXTENDS Integers, Sequences, FiniteSets, TLC

VARIABLES
    GOOS,        \* runtime.GOOS
    GOARCH,      \* runtime.GOARCH
    osRelease,   \* /etc/os-release: [err, buf]
    uid,         \* os.Getuid()
    SUDO_USER,   \* os.Getenv("SUDO_USER")
    reposFile,   \* ~/.mopm-repos: [exists, buf]
    remote,      \* definition file held by each remote repository, by url
    fs,          \* clone directories under ~/.mopm, by path
    lintFile,    \* the file at the path given to the lint command
    command,     \* the command of this invocation
    pc,          \* position of the invocation
    pkgFiles,    \* install/verify/search: what findAllPackageFile returned
    env,         \* install/verify: what findPackageEnvironment returned
    log,         \* the processes started by execBash / execBashUnsudo, in order
    cursor,      \* update: index of the repository the loop is at
    result,      \* the error the command returned (nil when none)
    out          \* what the command wrote to the standard stream

vars == <<GOOS, GOARCH, osRelease, uid, SUDO_USER, reposFile, remote, fs,
          lintFile, command, pc, pkgFiles, env, log, cursor, result, out>>

machine == <<GOOS, GOARCH, osRelease, uid, SUDO_USER>>
disk == <<reposFile, remote, fs, lintFile>>

nil == "nil"

(***************************************************************************)
(* strings / regexp of the Go library, on sequences of characters          *)
(***************************************************************************)
HasPrefix(s, p) == Len(s) >= Len(p) /\ SubSeq(s, 1, Len(p)) = p

HasSuffix(s, p) == Len(s) >= Len(p) /\ SubSeq(s, Len(s) - Len(p) + 1, Len(s)) = p

TrimPrefix(s, p) == IF HasPrefix(s, p) THEN SubSeq(s, Len(p) + 1, Len(s)) ELSE s

TrimSuffix(s, p) == IF HasSuffix(s, p) THEN SubSeq(s, 1, Len(s) - Len(p)) ELSE s

RECURSIVE TrimLeft(_, _)
TrimLeft(s, cutset) ==
    IF s # <<>> /\ s[1] \in cutset THEN TrimLeft(Tail(s), cutset) ELSE s

RECURSIVE TrimRight(_, _)
TrimRight(s, cutset) ==
    IF s # <<>> /\ s[Len(s)] \in cutset
    THEN TrimRight(SubSeq(s, 1, Len(s) - 1), cutset)
    ELSE s

Trim(s, cutset) == TrimRight(TrimLeft(s, cutset), cutset)

WhiteSpace == {" ", "\t", "\n", "\r"}

TrimSpace(s) == Trim(s, WhiteSpace)

UpperCase == <<"A", "B", "C", "D", "E", "F", "G", "H", "I", "J", "K", "L", "M",
               "N", "O", "P", "Q", "R", "S", "T", "U", "V", "W", "X", "Y", "Z">>

LowerCase == <<"a", "b", "c", "d", "e", "f", "g", "h", "i", "j", "k", "l", "m",
               "n", "o", "p", "q", "r", "s", "t", "u", "v", "w", "x", "y", "z">>

ToLower(s) ==
    [i \in 1..Len(s) |->
        IF \E k \in 1..Len(UpperCase) : UpperCase[k] = s[i]
        THEN LowerCase[CHOOSE k \in 1..Len(UpperCase) : UpperCase[k] = s[i]]
        ELSE s[i]]

\* string(chars): the characters as one string
RECURSIVE Str(_)
Str(s) == IF s = <<>> THEN "" ELSE s[1] \o Str(Tail(s))

LineBreak == {"\r", "\n"}

\* the pieces of buf between separators: starts is the set of positions where
\* a separator begins and width[i] the length of the one beginning at i
Pieces(buf, starts, width) ==
    LET n == Cardinality(starts)
        at(k) == CHOOSE i \in starts : Cardinality({j \in starts : j <= i}) = k
        from(k) == IF k = 1 THEN 1 ELSE at(k - 1) + width[at(k - 1)]
        to(k) == IF k = n + 1 THEN Len(buf) ELSE at(k) - 1
    IN [k \in 1..(n + 1) |-> SubSeq(buf, from(k), to(k))]

\* position i of buf is the second character of a match of `\r\n|\n\r`:
\* matches are taken left to right and do not overlap
RECURSIVE SecondOfPair(_, _)
SecondOfPair(buf, i) ==
    /\ i > 1
    /\ buf[i] \in LineBreak /\ buf[i - 1] \in LineBreak /\ buf[i - 1] # buf[i]
    /\ ~SecondOfPair(buf, i - 1)

\* regexp.MustCompile(`\r\n|\n\r|\n|\r`).Split(buf, -1)
SplitLines(buf) ==
    LET starts == {i \in 1..Len(buf) : buf[i] \in LineBreak /\ ~SecondOfPair(buf, i)}
        width == [i \in 1..Len(buf) |->
                    IF i < Len(buf) /\ SecondOfPair(buf, i + 1) THEN 2 ELSE 1]
    IN Pieces(buf, starts, width)

Digits == {"0", "1", "2", "3", "4", "5", "6", "7", "8", "9"}

NameClass == Digits \cup {LowerCase[k] : k \in 1..Len(LowerCase)} \cup {"-"}

\* pkgNameRegex `^[0-9a-z\-]+$`
pkgNameRegex(s) == Len(s) >= 1 /\ \A i \in 1..Len(s) : s[i] \in NameClass

HttpScheme == <<"h", "t", "t", "p", ":", "/", "/">>
HttpsScheme == <<"h", "t", "t", "p", "s", ":", "/", "/">>

\* urlRegex `^https?://`
urlRegex(s) == HasPrefix(s, HttpScheme) \/ HasPrefix(s, HttpsScheme)

(***************************************************************************)
(* lintPackage                                                             *)
(***************************************************************************)
ErrName == "Package name must consist of a-z, 0-9 and -(hyphen) charactors"
ErrUrl == "Package url must start with http(s):// ... "
ErrDescription == "Package description must not be empty"
ErrEnvironments == "Package must not be empty"
ErrArchitecture == "Package architecture must be 'amd64'"
ErrPlatform == "Package architecture must be 'darwin' or 'linux/ubuntu'"
ErrDependencies == "Package dependencies must consist of a-z, 0-9 and -(hyphen) charactors"
ErrVerification == "Package verification must not be empty"
ErrScript == "Package script must not be empty"

\* the body of the loop over pkg.Environments: the error of one environment
lintEnvironment(e) ==
    IF e.Architecture # "amd64" THEN ErrArchitecture
    ELSE IF e.Platform # "darwin" /\ e.Platform # "linux/ubuntu" THEN ErrPlatform
    ELSE IF \E k \in 1..Len(e.Dependencies) : ~pkgNameRegex(e.Dependencies[k])
         THEN ErrDependencies
    ELSE IF e.Verification = "" THEN ErrVerification
    ELSE IF e.Script = "" THEN ErrScript
    ELSE nil

\* the loop over pkg.Environments, from index i on
RECURSIVE lintEnvironments(_, _)
lintEnvironments(envs, i) ==
    IF i > Len(envs) THEN nil
    ELSE IF lintEnvironment(envs[i]) # nil THEN lintEnvironment(envs[i])
    ELSE lintEnvironments(envs, i + 1)

\* lintPackage checking the environments before the description
lintPackageEnvironmentsFirst(pkg) ==
    IF ~pkgNameRegex(pkg.Name) THEN ErrName
    ELSE IF ~urlRegex(pkg.Url) THEN ErrUrl
    ELSE IF Len(pkg.Environments) = 0 THEN ErrEnvironments
    ELSE IF pkg.Description = "" THEN ErrDescription
    ELSE lintEnvironments(pkg.Environments, 1)

lintPackage(pkg) ==
    IF ~pkgNameRegex(pkg.Name) THEN ErrName
    ELSE IF ~urlRegex(pkg.Url) THEN ErrUrl
    ELSE IF pkg.Description = "" THEN ErrDescription
    ELSE IF Len(pkg.Environments) = 0 THEN ErrEnvironments
    ELSE lintEnvironments(pkg.Environments, 1)

(***************************************************************************)
(* machinePlatform, machineEnvId, machinePrivilege                         *)
(***************************************************************************)
NamePrefix == <<"N", "A", "M", "E", "=", "\"">>
Quote == <<"\"">>

PanicOsRelease == "failed to read /etc/os-release inspite that your machine is linux"
PanicSlice == "runtime error: slice bounds out of range"

Returned(v) == [panic |-> nil, value |-> v]
Panicked(p) == [panic |-> p, value |-> ""]

\* the loop over the lines of /etc/os-release, from line i on
RECURSIVE scanOsRelease(_, _)
scanOsRelease(lines, i) ==
    IF i > Len(lines) THEN Returned("linux")
    ELSE IF HasPrefix(lines[i], NamePrefix) /\ HasSuffix(lines[i], Quote)
         THEN \* line[6 : len(line)-1] panics when len(line)-1 < 6
              IF Len(lines[i]) - 1 < Len(NamePrefix) THEN Panicked(PanicSlice)
              ELSE Returned("linux/" \o
                     Str(TrimSpace(ToLower(
                         SubSeq(lines[i], Len(NamePrefix) + 1, Len(lines[i]) - 1)))))
         ELSE scanOsRelease(lines, i + 1)

machinePlatform ==
    IF GOOS # "linux" THEN Returned(GOOS)
    ELSE IF osRelease.err THEN Panicked(PanicOsRelease)
    ELSE scanOsRelease(SplitLines(osRelease.buf), 1)

machineEnvId ==
    IF machinePlatform.panic # nil THEN machinePlatform
    ELSE Returned(GOARCH \o "@" \o machinePlatform.value)

RootUid == 0

machinePrivilege == uid = RootUid

(***************************************************************************)
(* homeDir, packageRepositories, repoUrl2repoPath                          *)
(***************************************************************************)
Exited(msg) == [exit |-> msg, value |-> <<>>]
Value(v) == [exit |-> nil, value |-> v]

ErrNoSudo == "Please excute with sudo if you excute mopm by root"
ErrNoRepository == "package repository url is not found in the file"

\* the user the process runs as when it is not root
CurrentUser == "alice"

\* usr.HomeDir of user.Current() / user.Lookup(name)
HomeDirOf(name) == <<"/", "h", "/">> \o <<name>>

homeDir ==
    IF ~machinePrivilege THEN Value(HomeDirOf(CurrentUser))
    ELSE IF SUDO_USER = "" THEN Exited(ErrNoSudo)
    ELSE Value(HomeDirOf(SUDO_USER))

defaultPackageRepoUrl ==
    <<"h", "t", "t", "p", "s", ":", "/", "/", "g", "i", "t", "h", "u", "b", ".",
      "c", "o", "m", "/", "b", "a", "s", "d", "4", "g", "/", "m", "o", "p", "m",
      "-", "d", "e", "f", "s", ".", "g", "i", "t">>

\* strings.Split(buf, "\n")
SplitNewline(buf) ==
    Pieces(buf, {i \in 1..Len(buf) : buf[i] = "\n"}, [i \in 1..Len(buf) |-> 1])

\* the loop over the lines of ~/.mopm-repos, from line i on
RECURSIVE scanRepos(_, _)
scanRepos(lines, i) ==
    IF i > Len(lines) THEN <<>>
    ELSE IF lines[i] # <<>> /\ ~HasPrefix(lines[i], <<"#">>)
         THEN <<Trim(lines[i], {" "})>> \o scanRepos(lines, i + 1)
         ELSE scanRepos(lines, i + 1)

\* ~/.mopm-repos as packageRepositories leaves it: created when missing
reposFileAfter(rf) ==
    IF ~rf.exists THEN [exists |-> TRUE, buf |-> defaultPackageRepoUrl] ELSE rf

\* the list packageRepositories returns on the file rf, or the exit it takes
packageRepositories(rf) ==
    IF homeDir.exit # nil THEN homeDir
    ELSE LET repos == scanRepos(SplitNewline(reposFileAfter(rf).buf), 1)
         IN IF Len(repos) = 0 THEN Exited(ErrNoRepository) ELSE Value(repos)

DotGit == <<".", "g", "i", "t">>
MopmDir == <<"/", ".", "m", "o", "p", "m", "/">>

\* repoUrl2repoPath with homeDir() returning home
repoPathUnder(home, url) ==
    home \o MopmDir \o
        TrimSuffix(TrimPrefix(TrimPrefix(url, HttpScheme), HttpsScheme), DotGit)

\* called only after packageRepositories returned, so homeDir does not exit
repoUrl2repoPath(url) == repoPathUnder(homeDir.value, url)

\* os.Stat(path) finds the directory
DirExists(disc, path) == path \in DOMAIN disc /\ disc[path].exists

(***************************************************************************)
(* readPackageFile, findAllPackageFile, findPackageEnvironment             *)
(***************************************************************************)
NoPackage == [Name |-> <<>>, Url |-> <<>>, Description |-> "", Environments |-> <<>>]

\* what a path holds: nothing, a file that cannot be read, text that is not
\* yaml of a Package, or the Package the yaml unmarshals to
Missing == [kind |-> "missing", pkg |-> NoPackage]
Unreadable == [kind |-> "unreadable", pkg |-> NoPackage]
Unparseable == [kind |-> "unparseable", pkg |-> NoPackage]
Yaml(pkg) == [kind |-> "package", pkg |-> pkg]

ErrNotExist == "The package do not exist"
ErrRead == "read error"
ErrYaml == "Failed to parse yaml file"

NoPackageFile == [Package |-> NoPackage, Path |-> <<>>]

\* readPackageFile on a path holding file
readPackageFile(path, file) ==
    IF file.kind = "missing" THEN [err |-> ErrNotExist, pkgFile |-> NoPackageFile]
    ELSE IF file.kind = "unreadable" THEN [err |-> ErrRead, pkgFile |-> NoPackageFile]
    ELSE IF file.kind = "unparseable" THEN [err |-> ErrYaml, pkgFile |-> NoPackageFile]
    ELSE IF lintPackage(file.pkg) # nil
         THEN [err |-> lintPackage(file.pkg), pkgFile |-> NoPackageFile]
    ELSE [err |-> nil, pkgFile |-> [Package |-> file.pkg, Path |-> path]]

\* the package whose definition the commands look up
packageName == <<"g", "i", "t">>

DefinitionPath(url) ==
    repoUrl2repoPath(url) \o <<"/", "d", "e", "f", "i", "n", "i", "t", "i", "o", "n", "s", "/">>
        \o packageName \o <<".", "y", "a", "m", "l">>

\* what the file system holds at the definition path of url
FileAt(disc, url) ==
    IF DirExists(disc, repoUrl2repoPath(url)) THEN disc[repoUrl2repoPath(url)].def
    ELSE Missing

\* the loop of findAllPackageFile over the repositories, from index i on
RECURSIVE scanPackageFiles(_, _, _)
scanPackageFiles(disc, repos, i) ==
    IF i > Len(repos) THEN <<>>
    ELSE LET r == readPackageFile(DefinitionPath(repos[i]), FileAt(disc, repos[i]))
         IN IF r.err = nil
            THEN <<r.pkgFile>> \o scanPackageFiles(disc, repos, i + 1)
            ELSE scanPackageFiles(disc, repos, i + 1)

\* findAllPackageFile giving up at the first file it cannot load
RECURSIVE scanPackageFilesAbort(_, _, _)
scanPackageFilesAbort(disc, repos, i) ==
    IF i > Len(repos) THEN <<>>
    ELSE LET r == readPackageFile(DefinitionPath(repos[i]), FileAt(disc, repos[i]))
         IN IF r.err = nil
            THEN <<r.pkgFile>> \o scanPackageFilesAbort(disc, repos, i + 1)
            ELSE <<>>

findAllPackageFileAbort(disc, repos) == scanPackageFilesAbort(disc, repos, 1)

findAllPackageFile(disc, repos) == scanPackageFiles(disc, repos, 1)

ErrNoEnvironment == "Matched environment does not exist"

NoEnvironment ==
    [Architecture |-> "", Platform |-> "", Dependencies |-> <<>>,
     Verification |-> "", Privilege |-> FALSE, Script |-> ""]

\* the two loops of findPackageEnvironment, from environment j of file i on
RECURSIVE scanEnvironments(_, _, _, _)
scanEnvironments(files, envId, i, j) ==
    IF i > Len(files) THEN [err |-> ErrNoEnvironment, env |-> NoEnvironment]
    ELSE IF j > Len(files[i].Package.Environments)
         THEN scanEnvironments(files, envId, i + 1, 1)
    ELSE LET e == files[i].Package.Environments[j]
         IN IF e.Architecture \o "@" \o e.Platform = envId
            THEN [err |-> nil, env |-> e]
            ELSE scanEnvironments(files, envId, i, j + 1)

\* findPackageEnvironment looking at the package files last to first
findPackageEnvironmentBackwards(files, envId) ==
    scanEnvironments([i \in 1..Len(files) |-> files[Len(files) + 1 - i]], envId, 1, 1)

findPackageEnvironment(files, envId) == scanEnvironments(files, envId, 1, 1)

(***************************************************************************)
(* execBash, execBashUnsudo: the processes the commands start              *)
(***************************************************************************)
\* bash started by execBash: it runs as the user of the process itself
execBash(script, ok) ==
    [fn |-> "execBash", user |-> IF machinePrivilege THEN "root" ELSE CurrentUser,
     script |-> script, ok |-> ok]

\* sudo --user=$SUDO_USER bash, started by execBashUnsudo
execBashUnsudo(script, ok) ==
    [fn |-> "execBashUnsudo", user |-> SUDO_USER, script |-> script, ok |-> ok]

ErrExitStatus == "exit status 1"
ErrNotInstalled == "The package is not installed"
ErrPrivilege == "Check privilege to install this package"
ErrFailedVerify == "Finished installing script but failed to verify"
MsgAlreadyInstalled == "The package is already installed"
MsgInstalled == "Installed successfully."
MsgLintPassed == "lint passed"

\* installExecBranch taking root for sudo without looking at SUDO_USER
installExecBranchAnyRoot(privilege) ==
    IF privilege = machinePrivilege THEN "execBash"
    ELSE IF ~privilege /\ machinePrivilege THEN "execBashUnsudo" ELSE "deny"

\* which branch installExec takes
installExecBranch(privilege) ==
    IF privilege = machinePrivilege THEN "execBash"
    ELSE LET isSudo == machinePrivilege /\ SUDO_USER # ""
         IN IF ~privilege /\ isSudo THEN "execBashUnsudo" ELSE "deny"

(***************************************************************************)
(* the commands                                                            *)
(***************************************************************************)
local == <<pkgFiles, env, log, cursor>>

\* search: findAllPackageFile, then one Println per package file (out holds
\* the files printed)
Search ==
    /\ command = "search" /\ pc = "start"
    /\ LET repos == packageRepositories(reposFile)
       IN /\ reposFile' = IF homeDir.exit = nil THEN reposFileAfter(reposFile) ELSE reposFile
          /\ IF repos.exit # nil
             THEN /\ pc' = "exit" /\ result' = repos.exit
                  /\ out' = Append(out, repos.exit)
                  /\ pkgFiles' = pkgFiles
             ELSE /\ pkgFiles' = findAllPackageFile(fs, repos.value)
                  /\ out' = out \o pkgFiles'
                  /\ pc' = "done" /\ result' = nil
    /\ UNCHANGED <<machine, remote, fs, lintFile, command, env, log, cursor>>

\* verify and install, up to the return of findPackageEnvironment:
\* machineEnvId() is evaluated first, as the argument of the call
Resolve ==
    /\ command \in {"verify", "install"} /\ pc = "start"
    /\ IF machineEnvId.panic # nil
       THEN /\ pc' = "panic" /\ result' = machineEnvId.panic
            /\ UNCHANGED <<reposFile, pkgFiles, env, out>>
       ELSE LET repos == packageRepositories(reposFile)
            IN /\ reposFile' = IF homeDir.exit = nil THEN reposFileAfter(reposFile)
                               ELSE reposFile
               /\ IF repos.exit # nil
                  THEN /\ pc' = "exit" /\ result' = repos.exit
                       /\ out' = Append(out, repos.exit)
                       /\ UNCHANGED <<pkgFiles, env>>
                  ELSE LET files == findAllPackageFile(fs, repos.value)
                           found == findPackageEnvironment(files, machineEnvId.value)
                       IN /\ pkgFiles' = files
                          /\ env' = found.env
                          /\ IF found.err # nil
                             THEN /\ pc' = "done" /\ result' = found.err
                                  /\ out' = Append(out, found.err)
                             ELSE /\ pc' = "verifyExec"
                                  /\ UNCHANGED <<result, out>>
    /\ UNCHANGED <<machine, remote, fs, lintFile, command, log, cursor>>

\* verify: return verifyExec(env)
Verify ==
    /\ command = "verify" /\ pc = "verifyExec"
    /\ \E ok \in BOOLEAN :
        /\ log' = Append(log, execBash(env.Verification, ok))
        /\ result' = IF ok THEN nil ELSE ErrNotInstalled
    /\ pc' = "done"
    /\ UNCHANGED <<machine, disk, command, pkgFiles, env, cursor, out>>

\* InstallVerify without the early return: the script runs whatever the
\* first verification says
InstallVerifyNoReturn ==
    /\ command = "install" /\ pc = "verifyExec"
    /\ \E ok \in BOOLEAN :
        log' = Append(log, execBash(env.Verification, ok))
    /\ pc' = "installExec"
    /\ UNCHANGED <<machine, disk, command, pkgFiles, env, cursor, result, out>>

\* install: if verifyExec(env) == nil { ... return nil }
InstallVerify ==
    /\ command = "install" /\ pc = "verifyExec"
    /\ \E ok \in BOOLEAN :
        /\ log' = Append(log, execBash(env.Verification, ok))
        /\ IF ok
           THEN /\ pc' = "done" /\ result' = nil
                /\ out' = Append(out, MsgAlreadyInstalled)
           ELSE /\ pc' = "installExec"
                /\ UNCHANGED <<result, out>>
    /\ UNCHANGED <<machine, disk, command, pkgFiles, env, cursor>>

\* InstallExec that drops the error of the script and goes on to verify
InstallExecIgnoreStatus ==
    /\ command = "install" /\ pc = "installExec"
    /\ LET branch == installExecBranch(env.Privilege)
       IN IF branch = "deny"
          THEN /\ pc' = "done" /\ result' = ErrPrivilege
               /\ out' = Append(out, ErrPrivilege)
               /\ log' = log
          ELSE \E ok \in BOOLEAN :
                /\ log' = Append(log, IF branch = "execBash"
                                      THEN execBash(env.Script, ok)
                                      ELSE execBashUnsudo(env.Script, ok))
                /\ pc' = "reverify"
                /\ UNCHANGED <<result, out>>
    /\ UNCHANGED <<machine, disk, command, pkgFiles, env, cursor>>

\* install: err = installExec(env.Privilege, env.Script); if err != nil { return err }
InstallExec ==
    /\ command = "install" /\ pc = "installExec"
    /\ LET branch == installExecBranch(env.Privilege)
       IN IF branch = "deny"
          THEN /\ pc' = "done" /\ result' = ErrPrivilege
               /\ out' = Append(out, ErrPrivilege)
               /\ log' = log
          ELSE \E ok \in BOOLEAN :
                /\ log' = Append(log, IF branch = "execBash"
                                      THEN execBash(env.Script, ok)
                                      ELSE execBashUnsudo(env.Script, ok))
                /\ IF ok
                   THEN /\ pc' = "reverify"
                        /\ UNCHANGED <<result, out>>
                   ELSE /\ pc' = "done" /\ result' = ErrExitStatus
                        /\ out' = Append(out, ErrExitStatus)
    /\ UNCHANGED <<machine, disk, command, pkgFiles, env, cursor>>

\* install: if verifyExec(env) != nil { ... } to the end
InstallReverify ==
    /\ command = "install" /\ pc = "reverify"
    /\ \E ok \in BOOLEAN :
        /\ log' = Append(log, execBash(env.Verification, ok))
        /\ result' = IF ok THEN nil ELSE ErrFailedVerify
        /\ out' = Append(out, IF ok THEN MsgInstalled ELSE ErrFailedVerify)
    /\ pc' = "done"
    /\ UNCHANGED <<machine, disk, command, pkgFiles, env, cursor>>

\* lint: readPackageFile of the path given
Lint ==
    /\ command = "lint" /\ pc = "start"
    /\ LET r == readPackageFile(<<"p">>, lintFile)
       IN /\ result' = r.err
          /\ out' = Append(out, IF r.err # nil THEN r.err ELSE MsgLintPassed)
    /\ pc' = "done"
    /\ UNCHANGED <<machine, disk, command, local>>

\* environment: fmt.Println(machineEnvId())
Environment ==
    /\ command = "environment" /\ pc = "start"
    /\ IF machineEnvId.panic # nil
       THEN /\ pc' = "panic" /\ result' = machineEnvId.panic /\ out' = out
       ELSE /\ pc' = "done" /\ result' = nil
            /\ out' = Append(out, machineEnvId.value)
    /\ UNCHANGED <<machine, disk, command, local>>

ErrGit == "git error"

\* update, up to the first evaluation of packageRepositories()
UpdateStart ==
    /\ command = "update" /\ pc = "start"
    /\ LET repos == packageRepositories(reposFile)
       IN /\ reposFile' = IF homeDir.exit = nil THEN reposFileAfter(reposFile) ELSE reposFile
          /\ IF repos.exit # nil
             THEN /\ pc' = "exit" /\ result' = repos.exit
                  /\ out' = Append(out, repos.exit)
                  /\ cursor' = cursor
             ELSE /\ pc' = "loop" /\ cursor' = 1
                  /\ UNCHANGED <<result, out>>
    /\ UNCHANGED <<machine, remote, fs, lintFile, command, pkgFiles, env, log>>

\* the directory the loop body of update looks at and writes to
updatePath(repos, i) == repoUrl2repoPath(repos[1])

\* gitClone(path, url) that succeeds
gitClone(disc, path, url) ==
    (path :> [exists |-> TRUE, origin |-> url, def |-> remote[url]]) @@ disc

\* gitPull(path) that succeeds
gitPull(disc, path) ==
    [disc EXCEPT ![path].def = remote[disc[path].origin]]

\* update: one pass of the loop body, for the repository at cursor
UpdateStep ==
    /\ command = "update" /\ pc = "loop"
    /\ LET repos == packageRepositories(reposFile).value
       IN /\ cursor <= Len(repos)
          /\ LET url == repos[cursor]
                 path == updatePath(repos, cursor)
             IN \E ok \in BOOLEAN :
                  IF ~DirExists(fs, path)
                  THEN IF ok /\ url \in DOMAIN remote
                       THEN /\ fs' = gitClone(fs, path, url)
                            /\ out' = Append(out, "Directory does not exist")
                            /\ cursor' = cursor + 1
                            /\ UNCHANGED <<pc, result>>
                       ELSE /\ pc' = "exit" /\ result' = ErrGit
                            /\ out' = out \o <<"Directory does not exist", ErrGit>>
                            /\ UNCHANGED <<fs, cursor>>
                  ELSE IF ok /\ fs[path].origin \in DOMAIN remote
                       THEN /\ fs' = gitPull(fs, path)
                            /\ cursor' = cursor + 1
                            /\ UNCHANGED <<pc, result, out>>
                       ELSE /\ pc' = "exit" /\ result' = ErrGit
                            /\ out' = Append(out, ErrGit)
                            /\ UNCHANGED <<fs, cursor>>
    /\ UNCHANGED <<machine, reposFile, remote, lintFile, command, pkgFiles, env, log>>

\* update: return nil after the loop
UpdateReturn ==
    /\ command = "update" /\ pc = "loop"
    /\ cursor > Len(packageRepositories(reposFile).value)
    /\ pc' = "done" /\ result' = nil
    /\ UNCHANGED <<machine, disk, command, local, out>>

(***************************************************************************)
(* inputs                                                                  *)
(***************************************************************************)
MaxRepos == 2
MaxNameLen == 2
MaxEnvs == 2
MaxLines == 2

SeqsUpTo(S, n) == UNION {[1..k -> S] : k \in 0..n}

\* strings.Join(lines, sep)
RECURSIVE Join(_, _)
Join(lines, sep) ==
    IF Len(lines) = 0 THEN <<>>
    ELSE IF Len(lines) = 1 THEN lines[1]
    ELSE lines[1] \o sep \o Join(Tail(lines), sep)

Uids == {RootUid, 1000}

UrlB == <<"h", "t", "t", "p", ":", "/", "/", "b", ".", "g", "i", "t">>
RepoUrls == {defaultPackageRepoUrl, UrlB}
CommentLine == <<"#", "x">>

EnvUbuntuRoot ==
    [Architecture |-> "amd64", Platform |-> "linux/ubuntu", Dependencies |-> <<>>,
     Verification |-> "v1", Privilege |-> TRUE, Script |-> "s1"]
EnvDarwinUser ==
    [Architecture |-> "amd64", Platform |-> "darwin", Dependencies |-> <<<<"c", "-", "1">>>>,
     Verification |-> "v2", Privilege |-> FALSE, Script |-> "s2"]
EnvDarwinRoot ==
    [Architecture |-> "amd64", Platform |-> "darwin", Dependencies |-> <<>>,
     Verification |-> "v3", Privilege |-> TRUE, Script |-> "s3"]
EnvUbuntuUser ==
    [Architecture |-> "amd64", Platform |-> "linux/ubuntu", Dependencies |-> <<>>,
     Verification |-> "v4", Privilege |-> FALSE, Script |-> "s4"]
EnvDarwinLate ==
    [Architecture |-> "amd64", Platform |-> "darwin", Dependencies |-> <<>>,
     Verification |-> "v5", Privilege |-> FALSE, Script |-> "s5"]
EnvArm ==
    [Architecture |-> "arm64", Platform |-> "linux/ubuntu", Dependencies |-> <<>>,
     Verification |-> "v6", Privilege |-> FALSE, Script |-> "s6"]

GoodUrl == HttpsScheme \o <<"x">>

PkgA == [Name |-> <<"g", "i", "t">>, Url |-> GoodUrl, Description |-> "a",
         Environments |-> <<EnvUbuntuRoot, EnvDarwinUser>>]
PkgB == [Name |-> <<"g", "i", "t">>, Url |-> GoodUrl, Description |-> "b",
         Environments |-> <<EnvDarwinRoot, EnvUbuntuUser, EnvDarwinLate>>]
\* rejected by lintPackage: no description
PkgNoDescription == [Name |-> <<"g", "i", "t">>, Url |-> GoodUrl, Description |-> "",
                     Environments |-> <<EnvDarwinLate, EnvUbuntuUser>>]
\* rejected by lintPackage: its second environment is arm64
PkgArm == [Name |-> <<"g", "i", "t">>, Url |-> GoodUrl, Description |-> "c",
           Environments |-> <<EnvUbuntuUser, EnvArm, EnvDarwinLate>>]

Contents == {Missing, Unparseable, Yaml(PkgA), Yaml(PkgB), Yaml(PkgNoDescription),
             Yaml(PkgArm)}

OsUbuntu == <<"I", "D", "=", "u", "\n">> \o NamePrefix \o <<"U", "b", "u", "n", "t", "u", "\"", "\n">>
OsBroken == NamePrefix \o <<"\n">>

Machines ==
    {[GOOS |-> "darwin", GOARCH |-> "amd64", osRelease |-> [err |-> TRUE, buf |-> <<>>]],
     [GOOS |-> "linux", GOARCH |-> "amd64", osRelease |-> [err |-> FALSE, buf |-> OsUbuntu]],
     [GOOS |-> "linux", GOARCH |-> "arm64", osRelease |-> [err |-> FALSE, buf |-> OsUbuntu]],
     [GOOS |-> "linux", GOARCH |-> "amd64", osRelease |-> [err |-> FALSE, buf |-> OsBroken]]}

NoReposFile == [exists |-> FALSE, buf |-> <<>>]

ReposFiles(lines) ==
    {NoReposFile} \cup
    {[exists |-> TRUE, buf |-> Join(ls, <<"\n">>)] : ls \in SeqsUpTo(lines, MaxRepos)}

\* the clone directories under the home of CurrentUser, each holding c[url]
\* as its definition file when there[url]
Disk(there, c) ==
    [p \in {repoPathUnder(HomeDirOf(CurrentUser), u) : u \in RepoUrls} |->
        LET u == CHOOSE u \in RepoUrls : repoPathUnder(HomeDirOf(CurrentUser), u) = p
        IN [exists |-> there[u], origin |-> u,
            def |-> IF there[u] THEN c[u] ELSE Missing]]

Idle ==
    /\ pc = "start" /\ pkgFiles = <<>> /\ env = NoEnvironment /\ log = <<>>
    /\ cursor = 0 /\ result = nil /\ out = <<>>

(***************************************************************************)
(* Spec: the search, verify and install commands                           *)
(***************************************************************************)
Init ==
    /\ \E m \in Machines :
        GOOS = m.GOOS /\ GOARCH = m.GOARCH /\ osRelease = m.osRelease
    /\ uid \in Uids /\ SUDO_USER \in {"", CurrentUser}
    /\ reposFile \in ReposFiles(RepoUrls \cup {CommentLine})
    /\ remote = [u \in RepoUrls |-> Missing]
    /\ fs \in {Disk([u \in RepoUrls |-> TRUE], c) : c \in [RepoUrls -> Contents]}
    /\ lintFile = Missing
    /\ command \in {"search", "verify", "install"}
    /\ Idle

Next ==
    \/ Search
    \/ Resolve
    \/ Verify
    \/ InstallVerify
    \/ InstallExec
    \/ InstallReverify

Spec == Init /\ [][Next]_vars

(***************************************************************************)
(* SpecPolicy: installExec called on every privilege, uid and SUDO_USER,   *)
(* from install at the point where the first verifyExec has failed         *)
(***************************************************************************)
PolicyEnvs == {EnvUbuntuRoot, EnvDarwinUser, EnvDarwinRoot, EnvUbuntuUser, EnvDarwinLate}

InitPolicy ==
    /\ GOOS = "darwin" /\ GOARCH = "amd64" /\ osRelease = [err |-> TRUE, buf |-> <<>>]
    /\ uid \in Uids /\ SUDO_USER \in {"", CurrentUser, "bob"}
    /\ reposFile = NoReposFile
    /\ remote = [u \in RepoUrls |-> Missing]
    /\ fs = Disk([u \in RepoUrls |-> FALSE], [u \in RepoUrls |-> Missing])
    /\ lintFile = Missing
    /\ command = "install" /\ pc = "installExec"
    /\ env \in PolicyEnvs
    /\ pkgFiles = <<>> /\ log = <<>> /\ cursor = 0 /\ result = nil /\ out = <<>>

NextPolicy ==
    \/ InstallExec
    \/ InstallReverify

SpecPolicy == InitPolicy /\ [][NextPolicy]_vars

(***************************************************************************)
(* SpecLint: the lint command on every file of a bounded set               *)
(***************************************************************************)
LintNames == SeqsUpTo({"a", "-", "A"}, MaxNameLen)

LintUrls == {<<>>, HttpScheme, GoodUrl, <<"h", "t", "t", "p", "s">>}

EnvNoPlatform == [EnvDarwinUser EXCEPT !.Platform = "linux"]
EnvBadDependency == [EnvDarwinUser EXCEPT !.Dependencies = <<<<"o", "k">>, <<"N", "o">>>>]
EnvNoVerification == [EnvUbuntuRoot EXCEPT !.Verification = ""]
EnvNoScript == [EnvUbuntuRoot EXCEPT !.Script = ""]
\* violates every rule of an environment at once
EnvAllWrong ==
    [Architecture |-> "", Platform |-> "", Dependencies |-> <<<<>>>>,
     Verification |-> "", Privilege |-> FALSE, Script |-> ""]

LintEnvs == {EnvDarwinUser, EnvArm, EnvNoPlatform, EnvBadDependency, EnvNoVerification,
             EnvNoScript, EnvAllWrong}

LintFiles ==
    {Missing, Unreadable, Unparseable} \cup
    {Yaml([Name |-> n, Url |-> u, Description |-> d, Environments |-> es]) :
        n \in LintNames, u \in LintUrls, d \in {"", "d"},
        es \in SeqsUpTo(LintEnvs, MaxEnvs)}

InitLint ==
    /\ GOOS = "darwin" /\ GOARCH = "amd64" /\ osRelease = [err |-> TRUE, buf |-> <<>>]
    /\ uid = 1000 /\ SUDO_USER = ""
    /\ reposFile = NoReposFile
    /\ remote = [u \in RepoUrls |-> Missing]
    /\ fs = Disk([u \in RepoUrls |-> FALSE], [u \in RepoUrls |-> Missing])
    /\ lintFile \in LintFiles
    /\ command = "lint"
    /\ Idle

NextLint == Lint

SpecLint == InitLint /\ [][NextLint]_vars

(***************************************************************************)
(* SpecPlatform: the environment command on every /etc/os-release of a     *)
(* bounded set                                                             *)
(***************************************************************************)
OsLines ==
    {<<>>,
     <<"I", "D", "=", "u">>,
     NamePrefix \o <<"U", "b", "\"">>,
     NamePrefix \o <<" ", "A", " ", "L", "\t", "\"">>,
     NamePrefix \o <<"\"">>,
     NamePrefix,
     NamePrefix \o <<"x">>,
     <<"N", "A", "M", "E", "=", "u">>}

LineBreaks == {<<"\n">>, <<"\r">>, <<"\r", "\n">>, <<"\n", "\r">>}

OsReleases ==
    {[err |-> TRUE, buf |-> <<>>]} \cup
    {[err |-> FALSE, buf |-> Join(ls, br)] :
        ls \in SeqsUpTo(OsLines, MaxLines), br \in LineBreaks}

InitPlatform ==
    /\ GOOS \in {"linux", "darwin"} /\ GOARCH \in {"amd64", "arm64"}
    /\ osRelease \in OsReleases
    /\ uid = 1000 /\ SUDO_USER = ""
    /\ reposFile = NoReposFile
    /\ remote = [u \in RepoUrls |-> Missing]
    /\ fs = Disk([u \in RepoUrls |-> FALSE], [u \in RepoUrls |-> Missing])
    /\ lintFile = Missing
    /\ command = "environment"
    /\ Idle

NextPlatform == Environment

SpecPlatform == InitPlatform /\ [][NextPlatform]_vars

(***************************************************************************)
(* SpecUpdate: the update command                                          *)
(***************************************************************************)
PaddedUrlB == <<" ">> \o UrlB \o <<" ">>

InitUpdate ==
    /\ GOOS = "darwin" /\ GOARCH = "amd64" /\ osRelease = [err |-> TRUE, buf |-> <<>>]
    /\ uid \in Uids /\ SUDO_USER \in {"", CurrentUser}
    /\ reposFile \in ReposFiles(RepoUrls \cup {CommentLine, <<>>, PaddedUrlB})
    /\ remote \in [RepoUrls -> {Yaml(PkgA), Yaml(PkgB)}]
    /\ fs \in {Disk(there, [u \in RepoUrls |-> Yaml(PkgA)]) : there \in [RepoUrls -> BOOLEAN]}
    /\ lintFile = Missing
    /\ command = "update"
    /\ Idle

NextUpdate ==
    \/ UpdateStart
    \/ UpdateStep
    \/ UpdateReturn

SpecUpdate == InitUpdate /\ [][NextUpdate]_vars

(***************************************************************************)
(* Properties                                                              *)
(***************************************************************************)
\* the script of env was handed to bash, by execBash or by execBashUnsudo
ScriptRan == \E i \in 1..Len(log) : log[i].script = env.Script

\* C1: in install, once the first verification has succeeded, install has
\* returned nil and bash was started for that verification only: the script
\* of the environment was run neither by execBash nor by execBashUnsudo.
C1_VerifiedInstallRunsNoScript ==
    (command = "install" /\ Len(log) >= 1 /\ log[1].ok)
        => /\ pc = "done" /\ result = nil
           /\ Len(log) = 1 /\ log[1].script = env.Verification
           /\ ~ScriptRan

C1_Witness ==
    /\ command = "install" /\ pc = "done"
    /\ Len(log) = 1 /\ log[1].ok /\ log[1].script = env.Verification
    /\ uid = RootUid /\ ~env.Privilege

\* what installExec did, read from the first process it started
C2_RunDirect(user) ==
    /\ Len(log) >= 1
    /\ log[1] = [fn |-> "execBash", user |-> user, script |-> env.Script, ok |-> log[1].ok]

C2_RunAs(user) ==
    /\ Len(log) >= 1
    /\ log[1] = [fn |-> "execBashUnsudo", user |-> user, script |-> env.Script,
                 ok |-> log[1].ok]

C2_Deny == log = <<>> /\ pc = "done" /\ result = ErrPrivilege

\* C2: once installExec has acted, what it did is the decision table:
\* privilege and root: the script by execBash as root; privilege and not
\* root: the privilege error and no process; no privilege and not root: the
\* script by execBash as the current user; no privilege, root and SUDO_USER
\* set: the script by execBashUnsudo as SUDO_USER; no privilege, root and
\* SUDO_USER empty: the privilege error and no process.
C2_PrivilegeTable ==
    pc # "installExec" =>
        /\ (env.Privilege /\ uid = RootUid) => C2_RunDirect("root")
        /\ (env.Privilege /\ uid # RootUid) => C2_Deny
        /\ (~env.Privilege /\ uid # RootUid) => C2_RunDirect(CurrentUser)
        /\ (~env.Privilege /\ uid = RootUid /\ SUDO_USER # "") => C2_RunAs(SUDO_USER)
        /\ (~env.Privilege /\ uid = RootUid /\ SUDO_USER = "") => C2_Deny

C2_Witness ==
    /\ pc = "reverify" /\ ~env.Privilege /\ uid = RootUid /\ SUDO_USER = "bob"
    /\ C2_RunAs("bob")

\* C3 (as claimed): install of an environment with privilege=true by a
\* process that is not root starts no bash process at all, and returns the
\* privilege error.
C3_DeniedInstallStartsNoProcess ==
    (command = "install" /\ env.Privilege /\ uid # RootUid)
        => /\ log = <<>>
           /\ pc = "done" => result = ErrPrivilege

\* C4 (as claimed): when install has returned after the script was run, the
\* verification was run a second time, whatever the exit status of the
\* script, and install returned nil or the failed-to-verify error by it.
C4_ReverifiedWhateverTheStatus ==
    (command = "install" /\ pc = "done" /\ ScriptRan)
        => /\ Len(log) = 3 /\ log[3].script = env.Verification
           /\ result = IF log[3].ok THEN nil ELSE ErrFailedVerify

\* C4 (amended): when install has returned after the script was run: if the
\* script exited with status zero the verification was run a second time
\* and install returned nil or the failed-to-verify error by it; if the
\* script failed, install returned the error of the script and the
\* verification was not run again.
C4_ReverifiedAfterZeroStatus ==
    /\ (command = "install" /\ pc = "done" /\ ScriptRan)
        => /\ log[2].script = env.Script
           /\ IF log[2].ok
              THEN /\ Len(log) = 3
                   /\ log[3] = execBash(env.Verification, log[3].ok)
                   /\ result = IF log[3].ok THEN nil ELSE ErrFailedVerify
              ELSE /\ Len(log) = 2
                   /\ result = ErrExitStatus
    /\ (command = "install" /\ pc = "reverify") => (Len(log) = 2 /\ log[2].ok)

C4_Witness ==
    /\ command = "install" /\ pc = "done" /\ Len(log) = 3
    /\ log[2].fn = "execBashUnsudo" /\ log[2].ok /\ ~log[3].ok
    /\ result = ErrFailedVerify

Resolved == command \in {"verify", "install"} /\ pc \notin {"start", "exit", "panic"}

C6_Matches(i, j) ==
    LET e == pkgFiles[i].Package.Environments[j]
    IN e.Architecture \o "@" \o e.Platform = machineEnvId.value

C6_Places ==
    UNION {{<<i, j>> : j \in 1..Len(pkgFiles[i].Package.Environments)} :
              i \in 1..Len(pkgFiles)}

\* C6: the environment verify and install work on is the one at the first
\* place, by package file (repository order) and then by declaration order,
\* whose architecture@platform is the machine identifier; the error
\* "Matched environment does not exist" is returned exactly when no
\* environment of a loaded package file matches.
C6_FirstMatch ==
    Resolved =>
        IF \E x \in C6_Places : C6_Matches(x[1], x[2])
        THEN /\ result # ErrNoEnvironment
             /\ \E x \in C6_Places :
                 /\ C6_Matches(x[1], x[2])
                 /\ env = pkgFiles[x[1]].Package.Environments[x[2]]
                 /\ \A y \in C6_Places :
                     (y[1] < x[1] \/ (y[1] = x[1] /\ y[2] < x[2]))
                         => ~C6_Matches(y[1], y[2])
        ELSE pc = "done" /\ result = ErrNoEnvironment /\ log = <<>>

C6_Witness ==
    /\ Resolved /\ Len(pkgFiles) = 2
    /\ pkgFiles[1].Package = PkgB /\ pkgFiles[2].Package = PkgA
    /\ GOOS = "darwin" /\ env = EnvDarwinRoot

\* the rules of lintPackage in their order: the four of the package, then
\* the five of each environment in declaration order
C7_NameViolated(n) == n = <<>> \/ \E i \in 1..Len(n) : n[i] \notin NameClass

C7_Rule(pkg, k) ==
    IF k = 1 THEN [violated |-> C7_NameViolated(pkg.Name), err |-> ErrName]
    ELSE IF k = 2
         THEN [violated |-> \A scheme \in {HttpScheme, HttpsScheme} :
                                \/ Len(pkg.Url) < Len(scheme)
                                \/ \E i \in 1..Len(scheme) : pkg.Url[i] # scheme[i],
               err |-> ErrUrl]
    ELSE IF k = 3 THEN [violated |-> pkg.Description = "", err |-> ErrDescription]
    ELSE IF k = 4 THEN [violated |-> pkg.Environments = <<>>, err |-> ErrEnvironments]
    ELSE LET e == pkg.Environments[((k - 5) \div 5) + 1]
             r == (k - 5) % 5
         IN IF r = 0 THEN [violated |-> e.Architecture \notin {"amd64"},
                           err |-> ErrArchitecture]
            ELSE IF r = 1 THEN [violated |-> e.Platform \notin {"darwin", "linux/ubuntu"},
                                err |-> ErrPlatform]
            ELSE IF r = 2
                 THEN [violated |-> \E d \in 1..Len(e.Dependencies) :
                                        C7_NameViolated(e.Dependencies[d]),
                       err |-> ErrDependencies]
            ELSE IF r = 3 THEN [violated |-> e.Verification = "", err |-> ErrVerification]
            ELSE [violated |-> e.Script = "", err |-> ErrScript]

C7_Rules(pkg) == 1..(4 + 5 * Len(pkg.Environments))

\* C7: lint of a parsed package returns the error of the first violated
\* rule in the order name, url, description, environments, then per
\* environment architecture, platform, dependencies, verification, script,
\* and nil exactly when no rule is violated; a name with a character outside
\* [0-9a-z-] gets the name error whatever the rest, and an empty description
\* with no environments (name and url valid) gets the description error.
C7_FirstViolatedRule ==
    (command = "lint" /\ pc = "done" /\ lintFile.kind = "package") =>
        LET pkg == lintFile.pkg
            bad == {k \in C7_Rules(pkg) : C7_Rule(pkg, k).violated}
        IN /\ IF bad = {} THEN result = nil
              ELSE result = C7_Rule(pkg, CHOOSE k \in bad : \A l \in bad : k <= l).err
           /\ (result = nil) = (bad = {})
           /\ (\E i \in 1..Len(pkg.Name) : pkg.Name[i] \notin NameClass) => result = ErrName
           /\ (/\ ~C7_Rule(pkg, 1).violated /\ ~C7_Rule(pkg, 2).violated
               /\ pkg.Description = "" /\ pkg.Environments = <<>>)
                 => result = ErrDescription

C7_Witness ==
    /\ command = "lint" /\ pc = "done" /\ lintFile.kind = "package"
    /\ lintFile.pkg.Name = <<"a", "-">> /\ lintFile.pkg.Url = GoodUrl
    /\ lintFile.pkg.Description = "" /\ lintFile.pkg.Environments = <<>>
    /\ result = ErrDescription

\* findAllPackageFile has returned in search, verify or install
Loaded == command \in {"search", "verify", "install"} /\ pc \notin {"start", "exit", "panic"}

\* the file of repos[i] is a package that passes lintPackage
C8_Valid(repos, i) ==
    /\ FileAt(fs, repos[i]).kind = "package"
    /\ lintPackage(FileAt(fs, repos[i]).pkg) = nil

\* C8: the package files search, verify and install hold are, in repository
\* order, exactly the definition files that exist, parse and pass
\* lintPackage: a repository whose file does not is skipped and the later
\* ones are still loaded; none of the files held fails lintPackage.
C8_OnlyLintedFiles ==
    Loaded =>
        LET repos == packageRepositories(reposFile).value
            valid == {i \in 1..Len(repos) : C8_Valid(repos, i)}
        IN /\ Len(pkgFiles) = Cardinality(valid)
           /\ \A k \in 1..Len(pkgFiles) :
               \E i \in valid :
                   /\ Cardinality({h \in valid : h <= i}) = k
                   /\ pkgFiles[k] = [Package |-> FileAt(fs, repos[i]).pkg,
                                     Path |-> DefinitionPath(repos[i])]
           /\ \A k \in 1..Len(pkgFiles) : lintPackage(pkgFiles[k].Package) = nil
           /\ (command = "search" /\ pc = "done") => Len(out) = Len(pkgFiles)

C8_Witness ==
    /\ Loaded /\ command = "install" /\ GOOS = "darwin"
    /\ packageRepositories(reposFile).value = <<UrlB, defaultPackageRepoUrl>>
    /\ FileAt(fs, UrlB) = Yaml(PkgNoDescription)
    /\ FileAt(fs, defaultPackageRepoUrl) = Yaml(PkgA)
    /\ Len(pkgFiles) = 1 /\ pkgFiles[1].Package = PkgA
    /\ env = EnvDarwinUser

\* the NAME="..." lines of /etc/os-release
C9_NameLines ==
    LET lines == SplitLines(osRelease.buf)
    IN SelectSeq(lines, LAMBDA l : HasPrefix(l, NamePrefix) /\ HasSuffix(l, Quote))

\* the distribution name of a NAME="..." line: empty when the line holds none
C9_Distribution(l) ==
    IF Len(l) < Len(NamePrefix) + 1 THEN <<>>
    ELSE TrimSpace(ToLower(SubSeq(l, Len(NamePrefix) + 1, Len(l) - 1)))

\* C9 (as claimed): on linux with a readable /etc/os-release the
\* environment command does not crash and prints linux/<distro> when the
\* first NAME="..." line holds a distribution name, and linux when it holds
\* none or when there is no such line.
C9_PlatformFallback ==
    (command = "environment" /\ pc # "start" /\ GOOS = "linux" /\ ~osRelease.err) =>
        /\ pc = "done"
        /\ out = <<GOARCH \o "@" \o
                    (IF C9_NameLines = <<>> \/ C9_Distribution(C9_NameLines[1]) = <<>>
                     THEN "linux"
                     ELSE "linux/" \o Str(C9_Distribution(C9_NameLines[1])))>>

\* C10 (as claimed): when update has returned without error, every
\* configured repository has its clone directory, cloned from that
\* repository and holding the definitions the repository holds.
C10_EveryRepositoryCloned ==
    (command = "update" /\ pc = "done") =>
        \A i \in 1..Len(packageRepositories(reposFile).value) :
            LET url == packageRepositories(reposFile).value[i]
            IN /\ DirExists(fs, repoUrl2repoPath(url))
               /\ fs[repoUrl2repoPath(url)].origin = url

====
